---- MODULE Spec2Model ----
(***************************************************************************)
(* FolliCore ML API: the service lifecycle of src/ml/api/server.py         *)
(* (lifespan, the background gRPC start task, load_models/unload_models    *)
(* and the health probes) and the DINOv2 engine of                         *)
(* src/ml/api/inference/dinov2.py (load, warmup, extract_features and      *)
(* extract_features_batch).                                                *)
(*                                                                         *)
(* Scheduling: everything in server.py runs on one asyncio event loop, so  *)
(* a coroutine runs without interruption between two points at which it    *)
(* really suspends.  The lifespan coroutine suspends at its `yield` and    *)
(* inside `await grpc_server.stop(grace=5.0)`; `await load_models(config)` *)
(* and `await unload_models()` never suspend (their bodies hold no await). *)
(***************************************************************************)
EXTENDS Integers, Sequences, FiniteSets, TLC

\* ------------------------------------------------------------------------
\* Bounds of the model (not program constants)
\* ------------------------------------------------------------------------

\* longest image list handed to extract_features_batch
MaxImages == 5

\* largest batch_size handed to extract_features_batch
MaxBatch == 3

\* number of callers that may have a load() of the one engine under way
MaxLoaders == 2

\* number of load() calls made on the one engine in a run
MaxLoadCalls == 2

\* how many timeout periods the clock of a running load() covers
MaxAge == 2

\* largest iterations argument handed to warmup
MaxIterations == 3

\* largest latency in ms measured for one warmup pass
MaxLatency == 2

\* ------------------------------------------------------------------------
\* Program constants
\* ------------------------------------------------------------------------

\* ModelConfig.warmup_iterations (warmup is configured when > 0)
warmup_iterations == 3

\* DINOv2Inference.__init__: self.embedding_dim = 768 (default for ViT-Base)
DefaultEmbeddingDim == 768
\* config.py, line 35: ModelConfig.model_load_timeout_ms
model_load_timeout_ms == 300000

\* the output width of the exported ONNX graph used in the model
OnnxGraphDim == 384

None == "None"

\* The model ids the service is configured to serve: load_models registers
\* exactly the key "dinov2".
ConfiguredModels == {"dinov2"}

VARIABLES
    \* ---- server.py: AppState and the positions of its coroutines ----
    pc,              \* position of the lifespan coroutine
    grpc_task,       \* the task made by asyncio.create_task(start_grpc_server)
    grpc_server,     \* app_state.grpc_server: None, or the state of the server
    models_loaded,   \* app_state.models_loaded
    loaded_models,   \* app_state.loaded_models (dict: key -> info)
    shutdown_event,  \* app_state.shutdown_event.is_set()
    health_resp,     \* {last answer of health_check}, {} before the first
    ready_resp,      \* {last answer of readiness_check}
    startup_resp,    \* {last answer of startup_check}
    \* ---- dinov2.py: one DINOv2Inference object and its environment ----
    onnx_path,       \* self.onnx_path: None or a path
    onnx_exists,     \* Path(self.onnx_path).exists() at this moment
    engine,          \* _is_loaded, _ort_session, _model, model_version, embedding_dim
    warmed,          \* a warmup() call has run to success since the last load
    loads,           \* caller -> position of its load() call in _load_sync
    load_calls,      \* number of load() calls made so far
    completed,       \* what get_model_info showed as each load() returned
    last_call,       \* {the last get_model_info / extract_features call}
    \* ---- dinov2.py: one extract_features_batch call ----
    images,          \* the argument images
    batch_size,      \* the argument batch_size
    b_pc,            \* position of the call
    b_i,             \* the loop variable i (0-based offset of the chunk)
    tasks,           \* index -> state of the extract_features call gathered for it
    results,         \* the local list results
    returned,        \* the list the call returned (read when b_pc = "returned")
    started,         \* indices whose extract_features call has been started
    finished,        \* indices whose extract_features call has completed
    done_order,      \* indices of the current chunk in their order of completion
    raised,          \* {the exception the call ended with}, {} while it has not
    chunks           \* the sizes of the chunks formed so far

serverVars == <<pc, grpc_task, grpc_server, models_loaded, loaded_models,
                shutdown_event>>
probeVars == <<health_resp, ready_resp, startup_resp>>
callVars == <<loads, load_calls, completed, last_call>>
engineVars == <<onnx_path, onnx_exists, engine, warmed, callVars>>
batchVars == <<images, batch_size, b_pc, b_i, tasks, results, returned,
               started, finished, done_order, raised, chunks>>
vars == <<serverVars, probeVars, engineVars, batchVars>>

\* ------------------------------------------------------------------------
\* server.py: application state
\* ------------------------------------------------------------------------

\* AppState.__init__
AppStateInit ==
    /\ grpc_server = None
    /\ models_loaded = FALSE
    /\ loaded_models = [k \in {} |-> None]
    /\ shutdown_event = FALSE

\* The info dict load_models stores under the key "dinov2".
DinoInfo ==
    [model_id |-> "dinov2-base", model_name |-> "facebook/dinov2-base",
     state |-> "ready", device |-> "cuda"]

\* The lifespan coroutine is suspended (at its yield, or inside the await of
\* grpc_server.stop) or is not running: only then can the event loop run
\* another task or a request handler.
EventLoopFree == pc \in {"start", "serving", "stopping", "stopped"}

\* a load_models that sets the flag but registers the model as still loading
load_models_NotReadyEntry ==
    /\ loaded_models' = [k \in (DOMAIN loaded_models) \cup {"dinov2"} |->
                            IF k = "dinov2"
                            THEN [DinoInfo EXCEPT !.state = "loading"]
                            ELSE loaded_models[k]]
    /\ models_loaded' = TRUE

\* load_models (lines 181-188): registers "dinov2" as ready and sets the flag.
\* No DINOv2Inference object is built, loaded or warmed here.
load_models ==
    /\ loaded_models' = [k \in (DOMAIN loaded_models) \cup {"dinov2"} |->
                            IF k = "dinov2" THEN DinoInfo ELSE loaded_models[k]]
    /\ models_loaded' = TRUE

\* an unload_models that clears the registry but forgets the flag
unload_models_KeepsFlag ==
    /\ loaded_models' = [k \in {} |-> None]
    /\ models_loaded' = models_loaded

\* unload_models (lines 196-200)
unload_models ==
    /\ loaded_models' = [k \in {} |-> None]
    /\ models_loaded' = FALSE

\* ------------------------------------------------------------------------
\* server.py: lifespan and the background gRPC task
\* ------------------------------------------------------------------------

\* lifespan, lines 217-223: asyncio.create_task(start_grpc_server(config)).
\* The task is only scheduled; it gets its first turn when the loop is free.
LifespanStart ==
    /\ pc = "start"
    /\ pc' = "loading"
    /\ grpc_task' = "pending"
    /\ UNCHANGED <<grpc_server, models_loaded, loaded_models, shutdown_event>>
    /\ UNCHANGED <<probeVars, engineVars, batchVars>>

\* lifespan, lines 226-230: await load_models(config), then yield.
LifespanLoad ==
    /\ pc = "loading"
    /\ load_models
    /\ pc' = "serving"
    /\ UNCHANGED <<grpc_task, grpc_server, shutdown_event>>
    /\ UNCHANGED <<probeVars, engineVars, batchVars>>

\* start_grpc_server (lines 142-146): create the server, store it in
\* app_state.grpc_server and start it.  create_grpc_server holds no await and
\* grpc.aio's start() marks the server running before it first suspends, so the
\* task does all of this in its first turn.
StartGrpcServer ==
    /\ grpc_task = "pending"
    /\ EventLoopFree
    /\ grpc_server' = "running"
    /\ grpc_task' = "done"
    /\ UNCHANGED <<pc, models_loaded, loaded_models, shutdown_event>>
    /\ UNCHANGED <<probeVars, engineVars, batchVars>>

\* start_grpc_server when create_grpc_server raises (add_insecure_port cannot
\* bind, line 136): the task ends before app_state.grpc_server is assigned.
StartGrpcServerFails ==
    /\ grpc_task = "pending"
    /\ EventLoopFree
    /\ grpc_task' = "failed"
    /\ UNCHANGED <<pc, grpc_server, models_loaded, loaded_models, shutdown_event>>
    /\ UNCHANGED <<probeVars, engineVars, batchVars>>

\* lifespan, lines 234-236, up to its next suspension: set the shutdown event
\* and call stop_grpc_server (lines 149-153).  With app_state.grpc_server still
\* None the stop is skipped without suspending and unload_models runs at once;
\* otherwise the coroutine suspends in `await grpc_server.stop(grace=5.0)`.
LifespanShutdown ==
    /\ pc = "serving"
    /\ shutdown_event' = TRUE
    /\ IF grpc_server = None
       THEN /\ unload_models
            /\ pc' = "stopped"
            /\ UNCHANGED grpc_server
       ELSE /\ grpc_server' = "stopping"
            /\ pc' = "stopping"
            /\ UNCHANGED <<models_loaded, loaded_models>>
    /\ UNCHANGED grpc_task
    /\ UNCHANGED <<probeVars, engineVars, batchVars>>

\* lifespan, lines 235-237: grpc_server.stop returns, then unload_models.
LifespanStopped ==
    /\ pc = "stopping"
    /\ grpc_server' = "stopped"
    /\ unload_models
    /\ pc' = "stopped"
    /\ UNCHANGED <<grpc_task, shutdown_event>>
    /\ UNCHANGED <<probeVars, engineVars, batchVars>>

\* ------------------------------------------------------------------------
\* server.py: health endpoints
\* ------------------------------------------------------------------------

\* a liveness handler that reports the model state
health_check_ModelGated ==
    [status |-> IF models_loaded THEN "healthy" ELSE "unhealthy",
     version |-> "1.0.0", status_code |-> 200]

\* health_check (lines 266-279); FastAPI answers a returned model with 200
health_check ==
    [status |-> "healthy", version |-> "1.0.0", status_code |-> 200]

\* readiness_check (lines 282-306): always a returned ModelsReadyResponse, so
\* always status 200; ready is the flag, models the registry's entries.
readiness_check ==
    [ready |-> models_loaded,
     models |-> [k \in DOMAIN loaded_models |->
                   [model_id |-> loaded_models[k].model_id,
                    state |-> loaded_models[k].state,
                    ready |-> loaded_models[k].state = "ready"]],
     status_code |-> 200]

\* startup_check (lines 309-327): HTTPException(503) while the flag is unset
startup_check ==
    IF ~models_loaded
    THEN [status_code |-> 503, body |-> "Models still loading"]
    ELSE [status_code |-> 200, body |-> "started"]

\* A request handler runs on the event loop, so only when the loop is free.
HealthProbe ==
    /\ EventLoopFree
    /\ health_resp' = {health_check}
    /\ UNCHANGED <<ready_resp, startup_resp>>
    /\ UNCHANGED <<serverVars, engineVars, batchVars>>

ReadinessProbe ==
    /\ EventLoopFree
    /\ ready_resp' = {readiness_check}
    /\ UNCHANGED <<health_resp, startup_resp>>
    /\ UNCHANGED <<serverVars, engineVars, batchVars>>

StartupProbe ==
    /\ EventLoopFree
    /\ startup_resp' = {startup_check}
    /\ UNCHANGED <<health_resp, ready_resp>>
    /\ UNCHANGED <<serverVars, engineVars, batchVars>>

\* ------------------------------------------------------------------------
\* dinov2.py: the engine (one DINOv2Inference object)
\* ------------------------------------------------------------------------

\* DINOv2Inference.__init__ (lines 121-133)
EngineNew ==
    [is_loaded |-> FALSE, ort_session |-> None, model |-> None,
     model_version |-> "unknown", embedding_dim |-> DefaultEmbeddingDim]

\* _load_onnx (lines 220-282).  ok = FALSE: ort.InferenceSession raises (line
\* 268) and nothing has been assigned yet.
load_onnx(e, ok) ==
    IF ok
    THEN [e EXCEPT !.ort_session = "session", !.model_version = "onnx",
                   !.embedding_dim = OnnxGraphDim]
    ELSE e

\* _load_pytorch (lines 162-218) with checkpoint_path None.  how = "ok": runs
\* to its end; "no_model": AutoModel.from_pretrained raises (line 187);
\* "no_processor": AutoImageProcessor.from_pretrained raises (line 210), after
\* the model, the version tag and the dimension were assigned.
load_pytorch(e, how) ==
    IF how = "no_model"
    THEN e
    ELSE [e EXCEPT !.model = "model", !.model_version = "pretrained",
                   !.embedding_dim = DefaultEmbeddingDim]

LoadOutcomes == {"ok", "no_model", "no_processor", "no_session"}

\* a choice that looks at the configured path only
UseOnnx_PathOnly == onnx_path # None

\* the backend choice of _load_sync, line 153
UseOnnx == onnx_path # None /\ onnx_exists

\* _load_sync (lines 147-160): _is_loaded is set only when the chosen loader
\* returned without raising.
load_sync(e, how) ==
    LET loaded == IF UseOnnx THEN load_onnx(e, how = "ok")
                             ELSE load_pytorch(e, how)
    IN  IF how = "ok" THEN [loaded EXCEPT !.is_loaded = TRUE] ELSE loaded

\* load (lines 135-145), one call with its outcome
Load ==
    /\ \E how \in LoadOutcomes :
          /\ IF UseOnnx THEN how \in {"ok", "no_session"}
                        ELSE how \in {"ok", "no_model", "no_processor"}
          /\ engine' = load_sync(engine, how)
    /\ warmed' = FALSE
    /\ UNCHANGED <<onnx_path, onnx_exists, callVars>>
    /\ UNCHANGED <<serverVars, probeVars, batchVars>>

\* The backend a forward pass runs on (lines 366-375 and 500-503): the ONNX
\* session when one is set, else the PyTorch model, which may be None.
ForwardBackend(e) ==
    IF e.ort_session # None THEN "onnx"
    ELSE IF e.model # None THEN "pytorch" ELSE None

\* warmup (lines 478-517) with iterations >= 1: it succeeds when the forward
\* passes do; on an engine without session and model the first pass raises.
Warmup ==
    /\ ForwardBackend(engine) # None
    /\ warmed' = TRUE
    /\ UNCHANGED <<onnx_path, onnx_exists, engine, callVars>>
    /\ UNCHANGED <<serverVars, probeVars, batchVars>>

\* The environment: the ONNX artifact appears on disk or disappears.
OnnxFileChange ==
    /\ onnx_path # None
    /\ onnx_exists' = ~onnx_exists
    /\ UNCHANGED <<onnx_path, engine, warmed, callVars>>
    /\ UNCHANGED <<serverVars, probeVars, batchVars>>

\* ------------------------------------------------------------------------
\* The service: lifecycle, probes and the engine
\* ------------------------------------------------------------------------

\* the callers of load()
Loaders == 1..MaxLoaders

\* a caller with no load() under way; choice is what line 153 decided for its
\* load() and what it then saw, age the time in ms its load() has been running
LoaderIdle ==
    [pc |-> "idle",
     choice |-> [backend |-> None, path_set |-> FALSE, file_there |-> FALSE],
     age |-> 0]

\* no load(), get_model_info or extract_features call has been made
CallsIdle ==
    /\ loads = [t \in Loaders |-> LoaderIdle]
    /\ load_calls = 0
    /\ completed = {}
    /\ last_call = {}

BatchIdle ==
    /\ images = <<>>
    /\ batch_size = 1
    /\ b_pc = "idle"
    /\ b_i = 0
    /\ tasks = [k \in {} |-> None]
    /\ results = <<>>
    /\ returned = <<>>
    /\ started = {}
    /\ finished = {}
    /\ done_order = <<>>
    /\ raised = {}
    /\ chunks = <<>>

Init ==
    /\ pc = "start"
    /\ grpc_task = "none"
    /\ AppStateInit
    /\ health_resp = {}
    /\ ready_resp = {}
    /\ startup_resp = {}
    /\ onnx_path \in {None, "dinov2.onnx"}
    /\ onnx_exists \in {b \in BOOLEAN : onnx_path = None => ~b}
    /\ engine = EngineNew
    /\ warmed = FALSE
    /\ CallsIdle
    /\ BatchIdle

Next ==
    \/ LifespanStart
    \/ LifespanLoad
    \/ StartGrpcServer
    \/ StartGrpcServerFails
    \/ LifespanShutdown
    \/ LifespanStopped
    \/ HealthProbe
    \/ ReadinessProbe
    \/ StartupProbe
    \/ Load
    \/ Warmup
    \/ OnnxFileChange

Spec == Init /\ [][Next]_vars

\* ------------------------------------------------------------------------
\* Properties of the service lifecycle (checked under Spec)
\* ------------------------------------------------------------------------

\* load_models has returned at some point of this run
LoadReturned == pc \in {"serving", "stopping", "stopped"}

\* unload_models has run
Unloaded == pc = "stopped"

\* every configured model id has a registry entry in state ready
AllConfiguredReady(reg) ==
    \A id \in ConfiguredModels : id \in DOMAIN reg /\ reg[id].state = "ready"

C2_ReadyEntryIsLoadedAndWarmed ==
    \A k \in DOMAIN loaded_models :
        loaded_models[k].state = "ready" =>
            /\ engine.is_loaded
            /\ (warmup_iterations > 0 => warmed)

\* C3: the ready flag of the readiness check equals the conjunction, over the
\* configured model ids, of the id's entry being in state ready (no entry counts
\* as not ready), in every state and in every answer given.
C3_ReadyIsConjunction ==
    /\ readiness_check.ready = AllConfiguredReady(loaded_models)
    /\ \A r \in ready_resp : r.ready = AllConfiguredReady(r.models)

\* C3 witness: after unload the configured model has no entry and the readiness
\* check has answered ready=false with an empty model list.
C3_Witness ==
    /\ Unloaded
    /\ DOMAIN loaded_models = {}
    /\ \E r \in ready_resp : ~r.ready /\ DOMAIN r.models = {}

\* C4: a readiness answer carries a success status code only when every
\* configured model is ready, and a non-success code otherwise.
C4_NotReadyIsNonSuccess ==
    \A r \in ready_resp :
        (r.status_code = 200) <=> AllConfiguredReady(r.models)

\* C5: the liveness check answers healthy, with a success code, in every state
\* (models not loaded, loaded, unloaded), and no answer it gave is unhealthy.
C5_LivenessAlwaysHealthy ==
    /\ health_check.status = "healthy"
    /\ health_check.status_code = 200
    /\ \A r \in health_resp : r.status = "healthy" /\ r.status_code = 200

\* C5 witness: liveness answered after the models were unloaded.
C5_Witness ==
    /\ Unloaded
    /\ ~models_loaded
    /\ health_resp # {}

\* C6: while load_models is in progress a liveness request can be served.
C6_HealthServedWhileLoading == pc = "loading" => ENABLED HealthProbe

\* C7: the startup check fails in every state before load_models has returned
\* for the first time and succeeds in every state after, also after unload.
C7_StartupLatched == (startup_check.status_code = 200) <=> LoadReturned

\* C8: when the registry has been cleared by the shutdown sequence the wire
\* listener is fully stopped: not running, not stopping, and not still to be
\* started by the background task.
C8_UnloadAfterListenerStopped ==
    Unloaded =>
        /\ grpc_task # "pending"
        /\ grpc_server \notin {"running", "stopping"}

\* ------------------------------------------------------------------------
\* dinov2.py: extract_features and extract_features_batch
\* ------------------------------------------------------------------------

\* the image values of the model
Images == {"imgA", "imgB"}

\* a preprocess that reads what the last load left on the engine
preprocess_ReadsEngine(img) == <<"tensor", img, engine.embedding_dim>>

\* preprocess (lines 284-314): a function of the image alone (image_size,
\* _mean and _std are assigned in __init__ only)
preprocess(img) == <<"tensor", img>>

\* an extraction that hands back attention maps from either backend
extract_features_sync_AttentionFromAny(e, img, return_attention, return_patches) ==
    LET backend == ForwardBackend(e)
    IN  [embedding |-> <<"cls", backend, preprocess(img)>>,
         dimension |-> e.embedding_dim,
         model_version |-> e.model_version,
         attention_maps |-> IF return_attention THEN <<<<"attentions", img>>>>
                                                ELSE <<None>>,
         patch_features |-> IF return_patches /\ backend # "onnx"
                            THEN <<<<"patches", img>>>> ELSE <<None>>]

\* _extract_features_sync (lines 349-390) when neither step raises: the
\* embedding is the CLS output of the backend in use for the preprocessed image
\* (the three timing fields are left out).
extract_features_sync(e, img, return_attention, return_patches) ==
    LET backend == ForwardBackend(e)
        attention == IF backend = "onnx" THEN None ELSE <<"attentions", img>>
        patches == IF backend = "onnx" THEN None ELSE <<"patches", img>>
    IN  [embedding |-> <<"cls", backend, preprocess(img)>>,
         dimension |-> e.embedding_dim,
         model_version |-> e.model_version,
         attention_maps |-> IF return_attention THEN <<attention>> ELSE <<None>>,
         patch_features |-> IF return_patches THEN <<patches>> ELSE <<None>>]

NotLoadedError == [error |-> "RuntimeError: Model not loaded. Call load() first."]
ForwardError == [error |-> "the forward pass raised"]
Pending == [error |-> "no result yet"]

\* a slice one item too long: images[i:i + batch_size + 1]
BatchSlice_Overlong(i) ==
    {j \in 1..Len(images) : i < j /\ j <= i + batch_size + 1}

\* images[i:i + batch_size] (line 467), as the set of 1-based positions
BatchSlice(i) ==
    {j \in 1..Len(images) : i < j /\ j <= i + batch_size}

\* a gather with return_exceptions=True: a raised call counts as returned
GatherComplete_ReturnExceptions == \A j \in DOMAIN tasks : tasks[j].st # "running"

\* a gather that hands back as soon as one call has completed
GatherComplete_AnyDone == \E j \in DOMAIN tasks : tasks[j].st = "done"

\* asyncio.gather (line 470) returns when every gathered call has returned
GatherComplete == \A j \in DOMAIN tasks : tasks[j].st = "done"

\* results in the order the calls completed (asyncio.as_completed)
GatherResults_CompletionOrder ==
    [k \in 1..Len(done_order) |-> tasks[done_order[k]].res]

\* asyncio.gather returns the results in the order of its arguments
GatherResults ==
    [k \in 1..Cardinality(DOMAIN tasks) |-> tasks[b_i + k].res]

\* the positions of a chunk in increasing order
RECURSIVE Ascending(_)
Ascending(S) ==
    IF S = {} THEN <<>>
    ELSE LET m == CHOOSE x \in S : \A y \in S : x <= y
         IN  <<m>> \o Ascending(S \ {m})

\* extract_features_batch is called (line 463: results = [])
BatchCall ==
    /\ b_pc = "idle"
    /\ b_pc' = "loop"
    /\ b_i' = 0
    /\ results' = <<>>
    /\ UNCHANGED <<images, batch_size, tasks, returned, started, finished,
                   done_order, raised, chunks>>
    /\ UNCHANGED <<serverVars, probeVars, engineVars>>

\* The for loop (lines 466-472): with items left, slice the next chunk and
\* gather one extract_features call per item; each call starts and either
\* raises at once (line 335, engine not loaded) or goes to the thread pool.
\* With no items left, return results (line 476).
BatchLoop ==
    /\ b_pc = "loop"
    /\ IF b_i < Len(images)
       THEN LET batch == BatchSlice(b_i) IN
            /\ tasks' = [j \in batch |->
                           IF engine.is_loaded
                           THEN [st |-> "running", res |-> Pending]
                           ELSE [st |-> "failed", res |-> NotLoadedError]]
            /\ started' = started \cup batch
            /\ finished' = IF engine.is_loaded THEN finished
                                               ELSE finished \cup batch
            /\ done_order' = IF engine.is_loaded THEN <<>> ELSE Ascending(batch)
            /\ chunks' = Append(chunks, Cardinality(batch))
            /\ b_pc' = "gather"
            /\ UNCHANGED returned
       ELSE /\ returned' = results
            /\ b_pc' = "returned"
            /\ UNCHANGED <<tasks, started, finished, done_order, chunks>>
    /\ UNCHANGED <<images, batch_size, b_i, results, raised>>
    /\ UNCHANGED <<serverVars, probeVars, engineVars>>

\* One gathered extract_features call ends in the thread pool (lines 339-347):
\* with its InferenceResult, or with the exception of the forward pass.  The
\* calls of a chunk end in any order, also after gather has raised.
TaskFinish ==
    /\ b_pc \in {"gather", "raised"}
    /\ \E j \in DOMAIN tasks, ok \in BOOLEAN :
          /\ tasks[j].st = "running"
          /\ tasks' = [tasks EXCEPT ![j] =
                         IF ok
                         THEN [st |-> "done",
                               res |-> extract_features_sync(engine, images[j],
                                                             FALSE, FALSE)]
                         ELSE [st |-> "failed", res |-> ForwardError]]
          /\ finished' = finished \cup {j}
          /\ done_order' = Append(done_order, j)
    /\ UNCHANGED <<images, batch_size, b_pc, b_i, results, returned, started,
                   raised, chunks>>
    /\ UNCHANGED <<serverVars, probeVars, engineVars>>

\* gather returns the chunk's results (lines 470-474): results.extend, next i
GatherReturn ==
    /\ b_pc = "gather"
    /\ GatherComplete
    /\ results' = results \o GatherResults
    /\ b_i' = b_i + batch_size
    /\ b_pc' = "loop"
    /\ UNCHANGED <<images, batch_size, tasks, returned, started, finished,
                   done_order, raised, chunks>>
    /\ UNCHANGED <<serverVars, probeVars, engineVars>>

\* The call whose exception asyncio.gather raises: the first gathered call to
\* end with an exception (gather sets its own exception in that call's done
\* callback; later exceptions are dropped).
RaisingItem ==
    LET failed == {k \in 1..Len(done_order) : tasks[done_order[k]].st = "failed"}
    IN  done_order[CHOOSE k \in failed : \A l \in failed : k <= l]

\* gather raises the exception of a failed call (line 470); nothing catches it,
\* so extract_features_batch ends with it and its results list is dropped.  The
\* other calls of the chunk are not cancelled.
GatherRaise ==
    /\ b_pc = "gather"
    /\ \E j \in DOMAIN tasks : tasks[j].st = "failed"
    /\ b_pc' = "raised"
    /\ raised' = {[item |-> RaisingItem, exception |-> tasks[RaisingItem].res]}
    /\ UNCHANGED <<images, batch_size, b_i, tasks, results, returned, started,
                   finished, done_order, chunks>>
    /\ UNCHANGED <<serverVars, probeVars, engineVars>>

\* every list of at most n images
ImageLists(n) == UNION {[1..k -> Images] : k \in 0..n}

\* One extract_features_batch call on an engine that is new or was loaded once.
InitBatch ==
    /\ pc = "start"
    /\ grpc_task = "none"
    /\ AppStateInit
    /\ health_resp = {}
    /\ ready_resp = {}
    /\ startup_resp = {}
    /\ onnx_path \in {None, "dinov2.onnx"}
    /\ onnx_exists \in {b \in BOOLEAN : onnx_path = None => ~b}
    /\ engine \in {EngineNew, load_sync(EngineNew, "ok")}
    /\ warmed = FALSE
    /\ CallsIdle
    /\ images \in ImageLists(MaxImages)
    /\ batch_size \in 1..MaxBatch
    /\ b_pc = "idle"
    /\ b_i = 0
    /\ tasks = [k \in {} |-> None]
    /\ results = <<>>
    /\ returned = <<>>
    /\ started = {}
    /\ finished = {}
    /\ done_order = <<>>
    /\ raised = {}
    /\ chunks = <<>>

NextBatch ==
    \/ BatchCall
    \/ BatchLoop
    \/ TaskFinish
    \/ GatherReturn
    \/ GatherRaise

SpecBatch == InitBatch /\ [][NextBatch]_vars

\* ------------------------------------------------------------------------
\* Properties of extract_features_batch (checked under SpecBatch)
\* ------------------------------------------------------------------------

RECURSIVE SumSeq(_)
SumSeq(q) == IF q = <<>> THEN 0 ELSE q[1] + SumSeq(Tail(q))

\* the 0-based number of the chunk position j falls in
ChunkOf(j) == (j - 1) \div batch_size

\* C9: a returned extract_features_batch call hands back a list as long as
\* images whose i-th element is the result of extract_features on images[i],
\* also for an empty list and a length that is no multiple of batch_size.
C9_BatchKeepsLengthAndOrder ==
    b_pc = "returned" =>
        /\ Len(returned) = Len(images)
        /\ \A i \in 1..Len(images) :
              returned[i] = extract_features_sync(engine, images[i], FALSE, FALSE)

\* C9 witness: a call returned for a list of 5 images with batch_size 3 (longer
\* than batch_size and no multiple of it), the two calls of the last chunk, on
\* differing images, having completed in the reverse of their input order.
C9_Witness ==
    /\ b_pc = "returned"
    /\ batch_size = 3
    /\ Len(images) = 5
    /\ images[4] # images[5]
    /\ done_order = <<5, 4>>
    /\ Len(returned) = 5

\* C10: the chunks are consecutive and hold exactly batch_size items, only the
\* one that ends the list may be shorter; and no call of a chunk has started
\* while a call of an earlier chunk has not completed.
C10_ChunksInSequence ==
    /\ \A k \in 1..Len(chunks) :
          \/ chunks[k] = batch_size
          \/ /\ k = Len(chunks)
             /\ chunks[k] \in 1..(batch_size - 1)
             /\ SumSeq(chunks) = Len(images)
    /\ started = 1..SumSeq(chunks)
    /\ b_pc = "returned" => SumSeq(chunks) = Len(images)
    /\ \A j \in started : \A i \in 1..Len(images) :
          ChunkOf(i) < ChunkOf(j) => i \in finished

\* C10 witness: a call over 5 images with batch_size 2 has formed the chunks
\* 2, 2, 1 and the call of the third chunk is running, all earlier ones done.
C10_Witness ==
    /\ chunks = <<2, 2, 1>>
    /\ b_pc = "gather"
    /\ 5 \in started \ finished
    /\ {1, 2, 3, 4} \subseteq finished

\* the extract_features calls this batch call has started and that have not
\* completed
InFlight == started \ finished

\* C11: at every moment of one extract_features_batch call at most batch_size
\* of the extract_features calls it started have not completed, also after a
\* call of the chunk has failed while others of the chunk still run.
C11_InFlightAtMostBatchSize == Cardinality(InFlight) <= batch_size

\* C11 witness: with batch_size 3 the batch call has ended with the exception
\* of one call of a full chunk while the two other calls of the chunk still run.
C11_Witness ==
    /\ b_pc = "raised"
    /\ batch_size = 3
    /\ Cardinality(InFlight) = 2
    /\ \E j \in DOMAIN tasks : tasks[j].st = "failed"

\* C12: once an extract_features call of a chunk has failed, the batch call
\* cannot return a list: it stays in gather until it ends with an exception,
\* which is the exception of the first call of the chunk that failed; nothing is
\* returned and no call of a later chunk has been started.
C12_ItemFailureFailsBatch ==
    /\ (\E j \in DOMAIN tasks : tasks[j].st = "failed") =>
          /\ b_pc \in {"gather", "raised"}
          /\ returned = <<>>
          /\ \A i \in started : \A j \in DOMAIN tasks : ChunkOf(i) <= ChunkOf(j)
    /\ b_pc = "gather" /\ (\E j \in DOMAIN tasks : tasks[j].st = "failed")
          => ENABLED GatherRaise
    /\ b_pc = "raised" =>
          /\ raised # {}
          /\ \A r \in raised :
                /\ tasks[r.item].st = "failed"
                /\ r.exception = tasks[r.item].res
                /\ \A k \in 1..Len(done_order) :
                      tasks[done_order[k]].st = "failed" =>
                          \E l \in 1..k : done_order[l] = r.item
    /\ b_pc # "raised" => raised = {}

\* C12 witness: the second chunk of a call over 5 images with batch_size 2 has
\* failed in its second item after its first item had returned; the call ended
\* with that exception, the results of the first chunk are dropped and the
\* fifth image was never started.
C12_Witness ==
    /\ b_pc = "raised"
    /\ Len(images) = 5
    /\ batch_size = 2
    /\ Len(results) = 2
    /\ tasks[3].st = "done"
    /\ \E r \in raised : r.item = 4 /\ r.exception = ForwardError
    /\ 5 \notin started

\* ------------------------------------------------------------------------
\* dinov2.py: the engine under concurrent callers.  load() runs _load_sync on
\* a thread of the default executor (line 145), so its assignments to the
\* engine's fields happen one at a time while other load() calls and the
\* readers on the event loop go on.
\* ------------------------------------------------------------------------

\* load (lines 135-145): a caller hands _load_sync to the executor.  Callers
\* are interchangeable, so a new call takes the lowest free slot.
LoadCall(t) ==
    /\ loads[t].pc = "idle"
    /\ \A u \in Loaders : u < t => loads[u].pc # "idle"
    /\ load_calls < MaxLoadCalls
    /\ load_calls' = load_calls + 1
    /\ loads' = [loads EXCEPT ![t].pc = "select", ![t].age = 0]
    /\ UNCHANGED <<onnx_path, onnx_exists, engine, warmed, completed, last_call>>
    /\ UNCHANGED <<serverVars, probeVars, batchVars>>

\* _load_sync, line 153: choose the loader
LoadSelect(t) ==
    /\ loads[t].pc = "select"
    /\ loads' = [loads EXCEPT
                   ![t].pc = IF UseOnnx THEN "onnx_session" ELSE "pt_model",
                   ![t].choice = [backend |-> IF UseOnnx THEN "onnx" ELSE "pytorch",
                                  path_set |-> onnx_path # None,
                                  file_there |-> onnx_exists]]
    /\ UNCHANGED <<onnx_path, onnx_exists, engine, warmed, load_calls, completed,
                   last_call>>
    /\ UNCHANGED <<serverVars, probeVars, batchVars>>

\* the load() of caller t ends with an exception
LoadRaised(t) == [loads EXCEPT ![t] = LoaderIdle]

\* _load_onnx, line 268: self._ort_session = ort.InferenceSession(...), which
\* raises when the file is gone by now or cannot be loaded
LoadOnnxSession(t) ==
    /\ loads[t].pc = "onnx_session"
    /\ \E ok \in {b \in BOOLEAN : b => onnx_exists} :
          IF ok THEN /\ engine' = [engine EXCEPT !.ort_session = "session"]
                     /\ loads' = [loads EXCEPT ![t].pc = "onnx_version"]
                ELSE /\ loads' = LoadRaised(t)
                     /\ UNCHANGED engine
    /\ UNCHANGED <<onnx_path, onnx_exists, warmed, load_calls, completed, last_call>>
    /\ UNCHANGED <<serverVars, probeVars, batchVars>>

\* _load_onnx, line 279: self.model_version = "onnx"
LoadOnnxVersion(t) ==
    /\ loads[t].pc = "onnx_version"
    /\ engine' = [engine EXCEPT !.model_version = "onnx"]
    /\ loads' = [loads EXCEPT ![t].pc = "onnx_dim"]
    /\ UNCHANGED <<onnx_path, onnx_exists, warmed, load_calls, completed, last_call>>
    /\ UNCHANGED <<serverVars, probeVars, batchVars>>

\* _load_onnx, line 282: self.embedding_dim = outputs[0].shape[-1]
LoadOnnxDim(t) ==
    /\ loads[t].pc = "onnx_dim"
    /\ engine' = [engine EXCEPT !.embedding_dim = OnnxGraphDim]
    /\ loads' = [loads EXCEPT ![t].pc = "finish"]
    /\ UNCHANGED <<onnx_path, onnx_exists, warmed, load_calls, completed, last_call>>
    /\ UNCHANGED <<serverVars, probeVars, batchVars>>

\* _load_pytorch, lines 187-189: self._model = AutoModel.from_pretrained(...)
LoadPtModel(t) ==
    /\ loads[t].pc = "pt_model"
    /\ \E ok \in BOOLEAN :
          IF ok THEN /\ engine' = [engine EXCEPT !.model = "model"]
                     /\ loads' = [loads EXCEPT ![t].pc = "pt_version"]
                ELSE /\ loads' = LoadRaised(t)
                     /\ UNCHANGED engine
    /\ UNCHANGED <<onnx_path, onnx_exists, warmed, load_calls, completed, last_call>>
    /\ UNCHANGED <<serverVars, probeVars, batchVars>>

\* _load_pytorch, lines 192-199 with checkpoint_path None
LoadPtVersion(t) ==
    /\ loads[t].pc = "pt_version"
    /\ engine' = [engine EXCEPT !.model_version = "pretrained"]
    /\ loads' = [loads EXCEPT ![t].pc = "pt_dim"]
    /\ UNCHANGED <<onnx_path, onnx_exists, warmed, load_calls, completed, last_call>>
    /\ UNCHANGED <<serverVars, probeVars, batchVars>>

\* _load_pytorch, line 202: self.embedding_dim = self._model.config.hidden_size
LoadPtDim(t) ==
    /\ loads[t].pc = "pt_dim"
    /\ engine' = [engine EXCEPT !.embedding_dim = DefaultEmbeddingDim]
    /\ loads' = [loads EXCEPT ![t].pc = "pt_processor"]
    /\ UNCHANGED <<onnx_path, onnx_exists, warmed, load_calls, completed, last_call>>
    /\ UNCHANGED <<serverVars, probeVars, batchVars>>

\* _load_pytorch, line 210: AutoImageProcessor.from_pretrained, which may raise
\* (a failing torch.compile, lines 213-218, is caught and logged)
LoadPtProcessor(t) ==
    /\ loads[t].pc = "pt_processor"
    /\ \E ok \in BOOLEAN :
          loads' = IF ok THEN [loads EXCEPT ![t].pc = "finish"] ELSE LoadRaised(t)
    /\ UNCHANGED <<onnx_path, onnx_exists, engine, warmed, load_calls, completed,
                   last_call>>
    /\ UNCHANGED <<serverVars, probeVars, batchVars>>

\* get_model_info (lines 524-536), the fields that depend on the load
get_model_info(e) ==
    [version |-> e.model_version,
     embedding_dim |-> e.embedding_dim,
     backend |-> IF e.ort_session # None THEN "onnx" ELSE "pytorch",
     is_loaded |-> e.is_loaded]

\* _load_sync, line 160: self._is_loaded = True, and load() returns
LoadFinish(t) ==
    /\ loads[t].pc = "finish"
    /\ engine' = [engine EXCEPT !.is_loaded = TRUE]
    /\ loads' = [loads EXCEPT ![t] = LoaderIdle]
    /\ completed' = completed \cup {get_model_info(engine')}
    /\ warmed' = FALSE
    /\ UNCHANGED <<onnx_path, onnx_exists, load_calls, last_call>>
    /\ UNCHANGED <<serverVars, probeVars, batchVars>>

\* a status query that loads the engine when it finds it not loaded
GetModelInfo_LazyLoad ==
    /\ last_call' = {[op |-> "get_model_info", info |-> get_model_info(engine)]}
    /\ engine' = IF engine.is_loaded THEN engine ELSE load_sync(engine, "ok")
    /\ UNCHANGED <<onnx_path, onnx_exists, warmed, loads, load_calls, completed>>
    /\ UNCHANGED <<serverVars, probeVars, batchVars>>

\* a status query: get_model_info on the event loop
GetModelInfo ==
    /\ last_call' = {[op |-> "get_model_info", info |-> get_model_info(engine)]}
    /\ UNCHANGED <<onnx_path, onnx_exists, engine, warmed, loads, load_calls,
                   completed>>
    /\ UNCHANGED <<serverVars, probeVars, batchVars>>

\* a guard that looks at the handles instead of the flag
NotLoadedGuard_Handles(e) == e.model = None /\ e.ort_session = None

\* extract_features, line 335: if not self._is_loaded
NotLoadedGuard(e) == ~e.is_loaded

\* an engine that marks itself unloaded when a request fails
engine_after_extract_Reset(e, outcome) ==
    IF outcome \in {"preprocess_raised", "forward_raised"}
    THEN [e EXCEPT !.is_loaded = FALSE]
    ELSE e

\* extract_features, preprocess, _extract_features_sync, _inference_onnx and
\* _inference_pytorch (lines 284-441) assign to no field of the engine, however
\* the request ends.
engine_after_extract(e, outcome) == e

\* the last extract_features call ended with an exception of preprocess or of
\* the forward pass
LastExtractFailed ==
    \E r \in last_call :
        r.op = "extract_features" /\ r.outcome \in {"preprocess_raised", "forward_raised"}

\* extract_features (lines 316-347) with _extract_features_sync (lines 349-390)
\* for one request.  Recorded with the answer: whether a load() had returned
\* before the call, whether preprocess and the forward pass were run, the
\* backend the forward pass ran on, and whether the request before it failed.
ExtractFeatures ==
    /\ \E ra \in BOOLEAN, rp \in BOOLEAN, how \in {"ok", "preprocess_raised", "forward_raised"} :
          LET outcome == IF NotLoadedGuard(engine) THEN "NotLoadedError" ELSE how
          IN  /\ last_call' =
                   {[op |-> "extract_features",
                     return_attention |-> ra,
                     outcome |-> outcome,
                     load_returned |-> completed # {},
                     preprocessed |-> outcome # "NotLoadedError",
                     forwarded |-> outcome \in {"ok", "forward_raised"},
                     backend |-> IF outcome \in {"ok", "forward_raised"}
                                 THEN ForwardBackend(engine) ELSE None,
                     after_failure |-> LastExtractFailed,
                     result |-> IF outcome = "ok"
                                THEN <<extract_features_sync(engine, "imgA", ra, rp)>>
                                ELSE <<>>]}
              /\ engine' = engine_after_extract(engine, outcome)
    /\ UNCHANGED <<onnx_path, onnx_exists, warmed, loads, load_calls, completed>>
    /\ UNCHANGED <<serverVars, probeVars, batchVars>>

\* a direct call of preprocess (lines 284-314) on the event loop
PreprocessCall ==
    /\ \E img \in Images :
          last_call' = {[op |-> "preprocess", image |-> img, tensor |-> preprocess(img)]}
    /\ UNCHANGED <<onnx_path, onnx_exists, engine, warmed, loads, load_calls,
                   completed>>
    /\ UNCHANGED <<serverVars, probeVars, batchVars>>

\* One engine, used by up to MaxLoaders callers of load() and by readers.
NextEngine ==
    \/ \E t \in Loaders :
          \/ LoadCall(t)
          \/ LoadSelect(t)
          \/ LoadOnnxSession(t)
          \/ LoadOnnxVersion(t)
          \/ LoadOnnxDim(t)
          \/ LoadPtModel(t)
          \/ LoadPtVersion(t)
          \/ LoadPtDim(t)
          \/ LoadPtProcessor(t)
          \/ LoadFinish(t)
    \/ GetModelInfo
    \/ ExtractFeatures
    \/ PreprocessCall
    \/ OnnxFileChange

SpecEngine == Init /\ [][NextEngine]_vars

\* Time passes while at least one load() is running.  load (lines 135-145)
\* awaits the executor without asyncio.wait_for and nothing else reads
\* model_load_timeout_ms, so the passing of time ends no load().
Tick ==
    /\ \E t \in Loaders : loads[t].pc # "idle"
    /\ \A t \in Loaders : loads[t].age < MaxAge * model_load_timeout_ms
    /\ loads' = [t \in Loaders |->
                   IF loads[t].pc # "idle"
                   THEN [loads[t] EXCEPT !.age = @ + model_load_timeout_ms]
                   ELSE loads[t]]
    /\ UNCHANGED <<onnx_path, onnx_exists, engine, warmed, load_calls, completed,
                   last_call>>
    /\ UNCHANGED <<serverVars, probeVars, batchVars>>

NextTimeout ==
    \/ NextEngine
    \/ Tick

SpecTimeout == Init /\ [][NextTimeout]_vars

\* lifespan, line 227, when the body of load_models raises: the handler of
\* lines 191-193 logs and re-raises, lifespan has no handler of its own, so the
\* startup of the application fails before its yield.  The exception leaves
\* the try body before the registry or the flag is assigned.
LifespanLoadRaises ==
    /\ pc = "loading"
    /\ pc' = "failed"
    /\ UNCHANGED <<grpc_task, grpc_server, models_loaded, loaded_models,
                   shutdown_event>>
    /\ UNCHANGED <<probeVars, engineVars, batchVars>>

NextFault ==
    \/ Next
    \/ LifespanLoadRaises

SpecFault == Init /\ [][NextFault]_vars

\* ------------------------------------------------------------------------
\* Properties of the engine under concurrent callers (checked under
\* SpecEngine, SpecTimeout and SpecFault)
\* ------------------------------------------------------------------------

\* the loaders with a load() under way
LoadsInFlight == {t \in Loaders : loads[t].pc # "idle"}

\* C13: an extract_features call on an engine on which no load() has returned
\* successfully (none called, one still running, or all failed) ends with the
\* not-loaded error, and neither preprocess nor a forward pass has been run
\* for it.
C13_NotLoadedRejected ==
    \A r \in last_call :
        (r.op = "extract_features" /\ ~r.load_returned)
            => /\ r.outcome = "NotLoadedError"
               /\ ~r.preprocessed
               /\ ~r.forwarded
               /\ r.result = <<>>

\* a request was refused while a load() was running that had already stored
\* the model handle
C13_Witness ==
    /\ \E r \in last_call : r.op = "extract_features" /\ r.outcome = "NotLoadedError"
    /\ LoadsInFlight # {}
    /\ engine.model # None
    /\ completed = {}

\* C14: every snapshot a status query returns is that of a new engine or the
\* one some completed load() left behind: handle, version, dimension and
\* loaded flag never mix two loads.
C14_SnapshotFromOneLoad ==
    \A r \in last_call :
        r.op = "get_model_info"
            => r.info \in {get_model_info(EngineNew)} \cup completed

\* C15: at most one load() is under way on the engine at any time.
C15_OneLoadInFlight == Cardinality(LoadsInFlight) <= 1

\* C16: no load() is still running once more than the configured load timeout
\* has passed since it was called.
C16_LoadEndsAtTimeout ==
    \A t \in Loaders :
        loads[t].pc # "idle" => loads[t].age <= model_load_timeout_ms

\* C17: after a failing load the registry holds the model's entry in state
\* "failed" and the process still answers its liveness probe.
C17_FailedLoadRecordedAndConfined ==
    pc = "failed"
        => /\ "dinov2" \in DOMAIN loaded_models
           /\ loaded_models["dinov2"].state = "failed"
           /\ ENABLED HealthProbe

\* C18: an extract_features call that ends with an exception of preprocess or
\* of the forward pass leaves every field of the engine as it was: no step
\* other than a step of a running load() that ends in such an answer changes
\* the engine.
C18_FailedRequestLeavesEngine ==
    [][(/\ loads' = loads
        /\ \E r \in last_call' :
              /\ r.op = "extract_features"
              /\ r.outcome \in {"preprocess_raised", "forward_raised"})
          => engine' = engine]_vars

\* a request succeeded right after one that failed at run time
C18_Witness ==
    /\ engine.is_loaded
    /\ \E r \in last_call :
          r.op = "extract_features" /\ r.outcome = "ok" /\ r.after_failure

\* C19: the backend a load() selects is ONNX exactly when an ONNX path is
\* configured and the file exists at the moment of the selection; otherwise
\* it is the native one.
C19_OnnxIffConfiguredAndPresent ==
    \A t \in Loaders :
        loads[t].choice.backend # None
            => /\ loads[t].choice.backend \in {"onnx", "pytorch"}
               /\ loads[t].choice.backend = "onnx"
                    <=> (loads[t].choice.path_set /\ loads[t].choice.file_there)

\* a load() chose the native backend although an ONNX path is configured,
\* because the file was not there
C19_Witness ==
    \E t \in Loaders :
        /\ loads[t].choice.backend = "pytorch"
        /\ loads[t].choice.path_set
        /\ ~loads[t].choice.file_there

\* C20: a successful extraction whose forward pass ran on the ONNX session
\* carries no attention maps, whichever value return_attention had.
C20_OnnxHasNoAttention ==
    \A r \in last_call :
        (r.op = "extract_features" /\ r.outcome = "ok" /\ r.backend = "onnx")
            => r.result[1].attention_maps = <<None>>

\* an ONNX extraction that asked for attention maps
C20_Witness ==
    \E r \in last_call :
        /\ r.op = "extract_features"
        /\ r.outcome = "ok"
        /\ r.backend = "onnx"
        /\ r.return_attention
        /\ r.result[1].attention_maps = <<None>>

\* ------------------------------------------------------------------------
\* Properties of reloads and of the shutdown race (checked under Spec and
\* SpecEngine)
\* ------------------------------------------------------------------------

\* The length of an embedding: the ONNX session returns its graph's output
\* (_inference_onnx, lines 392-400), the PyTorch model the CLS token of
\* last_hidden_state, hidden_size wide (_inference_pytorch, line 425).
EmbeddingLength(embedding) ==
    IF embedding[2] = "onnx" THEN OnnxGraphDim ELSE DefaultEmbeddingDim

\* C21: the result a loaded engine produces carries a dimension equal to the
\* length of its embedding.
C21_DimensionIsEmbeddingLength ==
    engine.is_loaded
        => LET r == extract_features_sync(engine, "imgA", FALSE, FALSE)
           IN  r.dimension = EmbeddingLength(r.embedding)

\* C25: on a loaded engine the backend that serves the forward pass, the
\* backend get_model_info reports and the version tag name the same backend.
C25_OneBackendServes ==
    engine.is_loaded
        => /\ ForwardBackend(engine) = get_model_info(engine).backend
           /\ ForwardBackend(engine) = "onnx" <=> engine.model_version = "onnx"

\* C27: once the shutdown sequence has finished the gRPC server is not
\* running.
C27_ListenerStoppedAfterShutdown ==
    pc = "stopped" => grpc_server # "running"

\* the ways the load() of this moment can fail
FailingOutcomes ==
    IF UseOnnx THEN {"no_session"} ELSE {"no_model", "no_processor"}

\* C28: a load() that fails leaves a not loaded engine not loaded, and leaves
\* a loaded engine with the backend, version tag and embedding dimension it
\* had.
C28_FailedLoadLeavesEngine ==
    \A how \in FailingOutcomes :
        LET after == load_sync(engine, how)
        IN  /\ ~engine.is_loaded => ~after.is_loaded
            /\ engine.is_loaded
                 => /\ ForwardBackend(after) = ForwardBackend(engine)
                    /\ after.model_version = engine.model_version
                    /\ after.embedding_dim = engine.embedding_dim

\* ------------------------------------------------------------------------
\* Properties of preprocess and get_model_info (checked under SpecEngine)
\* ------------------------------------------------------------------------

C24_GetModelInfoChangesNothing ==
    [][/\ (/\ loads' = loads
           /\ \E r \in last_call' : r.op = "get_model_info")
            => (engine' = engine /\ load_calls' = load_calls)
       /\ completed' = {}
            => \A r \in last_call' : r.op = "get_model_info" => ~r.info.is_loaded]_vars

\* get_model_info answered while a load() was mid-way, the model handle
\* already stored
C24_Witness ==
    /\ \E r \in last_call : r.op = "get_model_info" /\ ~r.info.is_loaded
    /\ LoadsInFlight # {}
    /\ engine.model # None
    /\ ~engine.is_loaded

\* ------------------------------------------------------------------------
\* dinov2.py: warmup calls
\* ------------------------------------------------------------------------

\* What one pass of warmup can measure: (time.time() - start) * 1000 (lines
\* 498 and 505).  time.time() reads the wall clock, which can be set back
\* between the two readings, so the difference can be negative.
LatencyValues == (0 - 1)..MaxLatency

RECURSIVE SeqMin(_)
SeqMin(q) ==
    IF Len(q) = 1 THEN q[1]
    ELSE LET m == SeqMin(Tail(q)) IN IF q[1] <= m THEN q[1] ELSE m

RECURSIVE SeqMax(_)
SeqMax(q) ==
    IF Len(q) = 1 THEN q[1]
    ELSE LET m == SeqMax(Tail(q)) IN IF q[1] >= m THEN q[1] ELSE m

\* the stats dict of warmup (lines 508-513); the mean is kept as the exact
\* quotient sum / n
warmup_stats(latencies) ==
    IF latencies = <<>>
    THEN [first_inference_ms |-> 0, avg_inference_ms |-> [sum |-> 0, n |-> 1],
          min_inference_ms |-> 0, max_inference_ms |-> 0]
    ELSE [first_inference_ms |-> latencies[1],
          avg_inference_ms |-> [sum |-> SumSeq(latencies), n |-> Len(latencies)],
          min_inference_ms |-> SeqMin(latencies),
          max_inference_ms |-> SeqMax(latencies)]

\* warmup (lines 478-517), one call.  It does not look at _is_loaded: each
\* pass goes to _inference_onnx when a session is set and to
\* _inference_pytorch otherwise (lines 500-503).  Without a session and
\* without a model the first pass fails in _inference_pytorch on self._device
\* (line 412), an attribute only _load_pytorch creates; pass_raises is a pass
\* that fails at run time.
WarmupCall ==
    /\ \E iterations \in 0..MaxIterations, pass_raises \in BOOLEAN :
       \E latencies \in [1..iterations -> LatencyValues] :
          LET outcome == IF iterations = 0 THEN "ok"
                         ELSE IF ForwardBackend(engine) = None THEN "AttributeError"
                         ELSE IF pass_raises THEN "forward_raised"
                         ELSE "ok"
              passes == IF outcome = "ok" THEN iterations
                        ELSE IF outcome = "forward_raised" THEN 1
                        ELSE 0
          IN  /\ last_call' =
                   {[op |-> "warmup",
                     iterations |-> iterations,
                     is_loaded |-> engine.is_loaded,
                     backend |-> ForwardBackend(engine),
                     outcome |-> outcome,
                     passes |-> passes,
                     latencies |-> IF outcome = "ok" THEN latencies ELSE <<>>,
                     stats |-> IF outcome = "ok" THEN {warmup_stats(latencies)}
                                                 ELSE {}]}
              /\ warmed' = IF outcome = "ok" /\ iterations >= 1 THEN TRUE ELSE warmed
    /\ UNCHANGED <<onnx_path, onnx_exists, engine, loads, load_calls, completed>>
    /\ UNCHANGED <<serverVars, probeVars, batchVars>>

NextWarmup ==
    \/ Load
    \/ OnnxFileChange
    \/ WarmupCall

SpecWarmup == Init /\ [][NextWarmup]_vars

\* ------------------------------------------------------------------------
\* Properties of warmup (checked under SpecWarmup)
\* ------------------------------------------------------------------------

\* C22: a warmup(iterations) with iterations >= 1 that returns on a loaded
\* engine has run iterations passes and returns the four statistics, none
\* negative, the first that of the first pass, and min <= avg <= max.
C22_WarmupStatistics ==
    \A r \in last_call :
        (r.op = "warmup" /\ r.is_loaded /\ r.iterations >= 1 /\ r.outcome = "ok")
            => /\ r.passes = r.iterations
               /\ r.stats # {}
               /\ \A st \in r.stats :
                     /\ DOMAIN st = {"first_inference_ms", "avg_inference_ms",
                                     "min_inference_ms", "max_inference_ms"}
                     /\ st.first_inference_ms = r.latencies[1]
                     /\ st.first_inference_ms >= 0
                     /\ st.min_inference_ms >= 0
                     /\ st.max_inference_ms >= 0
                     /\ st.avg_inference_ms.sum >= 0
                     /\ st.min_inference_ms * st.avg_inference_ms.n
                          <= st.avg_inference_ms.sum
                     /\ st.avg_inference_ms.sum
                          <= st.max_inference_ms * st.avg_inference_ms.n

\* C29: a warmup(iterations) with iterations >= 1 on an engine that is not
\* loaded fails and runs no forward pass.
C29_WarmupNeedsLoadedEngine ==
    \A r \in last_call :
        (r.op = "warmup" /\ ~r.is_loaded /\ r.iterations >= 1)
            => (r.outcome # "ok" /\ r.passes = 0)

\* ------------------------------------------------------------------------
\* dinov2.py: the native loader with its device, precision and checkpoint
\* arguments (onnx_path None)
\* ------------------------------------------------------------------------

\* the values of the device argument
Devices == {"cuda", "mps", "cpu"}

\* the devices that are accelerators
Accelerators == {"cuda", "mps"}

\* DINOv2Inference.__init__ (lines 114-133) with its device, use_fp16 and
\* checkpoint_path arguments.  placed is self._device, which only
\* _load_pytorch assigns; model_half says the model was converted by half();
\* state_dict_merged that load_state_dict ran.
DINOv2Inference(device, use_fp16, checkpoint_path) ==
    [is_loaded |-> FALSE, ort_session |-> None, model |-> None,
     model_version |-> "unknown", embedding_dim |-> DefaultEmbeddingDim,
     device |-> device,
     use_fp16 |-> use_fp16 /\ device = "cuda",
     checkpoint_path |-> checkpoint_path,
     placed |-> None, model_half |-> FALSE, state_dict_merged |-> FALSE]

\* What a load finds outside the engine: whether torch reports CUDA and MPS
\* as available, whether the checkpoint file exists, and what torch.load
\* returns for it: a dict with or without the key 'model_state_dict' and with
\* or without the key 'version'.
LoadEnvironments ==
    [cuda_available : BOOLEAN,
     mps_available : BOOLEAN,
     checkpoint_exists : BOOLEAN,
     has_state_dict : BOOLEAN,
     version : {None, "v2.1"}]

\* _load_pytorch, lines 173-182: the device the model is placed on
PlacedDevice(device, env) ==
    IF device = "cuda" /\ env.cuda_available THEN "cuda"
    ELSE IF device = "mps" /\ env.mps_available THEN "mps"
    ELSE "cpu"

\* _load_pytorch (lines 162-218) when none of its calls raises
load_pytorch_in(e, env) ==
    LET use_checkpoint == e.checkpoint_path # None /\ env.checkpoint_exists
    IN  [e EXCEPT
           !.placed = PlacedDevice(e.device, env),
           !.model = "model",
           !.state_dict_merged = use_checkpoint /\ env.has_state_dict,
           !.model_version =
               IF use_checkpoint
               THEN (IF env.version # None THEN env.version ELSE "checkpoint")
               ELSE "pretrained",
           !.embedding_dim = DefaultEmbeddingDim,
           !.model_half = e.use_fp16]

\* load (lines 135-160) with onnx_path None, one call that succeeds
NativeLoad ==
    /\ onnx_path = None
    /\ \E env \in LoadEnvironments :
          engine' = [load_pytorch_in(engine, env) EXCEPT !.is_loaded = TRUE]
    /\ warmed' = FALSE
    /\ UNCHANGED <<onnx_path, onnx_exists, callVars>>
    /\ UNCHANGED <<serverVars, probeVars, batchVars>>

\* _inference_pytorch, lines 411-415, reached through extract_features on a
\* loaded engine: the input goes to self._device and is converted by half()
\* when use_fp16 is set
NativeInference ==
    /\ engine.is_loaded
    /\ last_call' = {[op |-> "inference_pytorch",
                      device |-> engine.placed,
                      input_half |-> engine.use_fp16]}
    /\ UNCHANGED <<onnx_path, onnx_exists, engine, warmed, loads, load_calls,
                   completed>>
    /\ UNCHANGED <<serverVars, probeVars, batchVars>>

InitNative ==
    /\ pc = "start"
    /\ grpc_task = "none"
    /\ AppStateInit
    /\ health_resp = {}
    /\ ready_resp = {}
    /\ startup_resp = {}
    /\ onnx_path = None
    /\ onnx_exists = FALSE
    /\ engine \in {DINOv2Inference(d, f, c) :
                      d \in Devices, f \in BOOLEAN, c \in {None, "checkpoint.pt"}}
    /\ warmed = FALSE
    /\ CallsIdle
    /\ BatchIdle

NextNative ==
    \/ NativeLoad
    \/ NativeInference

SpecNative == InitNative /\ [][NextNative]_vars

\* ------------------------------------------------------------------------
\* Properties of the native loader (checked under SpecNative)
\* ------------------------------------------------------------------------

\* C26: a model converted to 16-bit is placed on an accelerator, and so is
\* every input converted to 16-bit.
C26_HalfOnlyOnAccelerator ==
    /\ engine.model_half => engine.placed \in Accelerators
    /\ \A r \in last_call :
          (r.op = "inference_pytorch" /\ r.input_half) => r.device \in Accelerators

\* C30: the version tag of a loaded engine is "pretrained", "checkpoint" or
\* "onnx": "onnx" exactly when the ONNX session was loaded, "checkpoint"
\* exactly when the native loader merged the state dict of a checkpoint.
C30_VersionTagIsOneOfThree ==
    engine.is_loaded
        => /\ engine.model_version \in {"pretrained", "checkpoint", "onnx"}
           /\ engine.model_version = "onnx" <=> engine.ort_session # None
           /\ engine.model_version = "checkpoint" <=> engine.state_dict_merged

====
